---- MODULE Spec2Model ----
(***************************************************************************)
(* Model of the speech-emotion inference core of own-your-mood:            *)
(* EmotionDetector (src/emotion_detector.py) and the analysis threads the  *)
(* desktop application starts for it (src/main.py, stop_recording).        *)
(*                                                                         *)
(* Units.  A sample is kept as its int16 value x; the float the code uses  *)
(* is x / 32768 (exact in float32), so every comparison of the code is     *)
(* cross-multiplied.  A model score is kept in units of 1/10000.           *)
(* A signal is a run-length sequence: <<[v |-> x, n |-> k], ...>> stands   *)
(* for k copies of x, then the next run, and so on.                        *)
(***************************************************************************)
EXTENDS Integers, Sequences, FiniteSets, TLC

----------------------------------------------------------------------------
(* Bounds of the model                                                     *)

MaxRuns == 2
MaxTime == 1
MaxFiles == 2
MaxNameLen == 3
MaxClock == 3
MaxStarts == 2
MaxChunks == 2
MaxRecs == 3
MaxDay == 5

SampleValues == {0, 3276, 3277, 32767, -32768}
RunLengths == {1, 32000, 48000}
Workers == {1, 2}
Paths == {"rec1.wav", "rec2.wav"}
Candidates == {"assets", "cwd", "models"}

----------------------------------------------------------------------------
(* Class attributes of EmotionDetector                                     *)

EMOTIONS ==
  [neutral |-> [color |-> "#9E9E9E", emoji |-> "U+1F610", icon |-> "sentiment_neutral"],
   happy   |-> [color |-> "#4CAF50", emoji |-> "U+1F60A", icon |-> "sentiment_satisfied"],
   sad     |-> [color |-> "#2196F3", emoji |-> "U+1F622", icon |-> "sentiment_dissatisfied"],
   angry   |-> [color |-> "#F44336", emoji |-> "U+1F620", icon |-> "sentiment_very_dissatisfied"],
   fearful |-> [color |-> "#9C27B0", emoji |-> "U+1F628", icon |-> "psychology_alt"],
   disgust |-> [color |-> "#795548", emoji |-> "U+1F922", icon |-> "sick"]]

\* Faulty variant: the classes in alphabetical order, as a label encoder sorts them.
MODEL_CLASSES_Sorted == <<"angry", "disgust", "fearful", "happy", "neutral", "sad">>

MODEL_CLASSES == <<"neutral", "happy", "sad", "angry", "fearful", "disgust">>

\* The methods the class defines; a call of any other name raises AttributeError.
Methods ==
  {"__init__", "analyze_audio", "get_emotion_info", "get_all_emotions",
   "_get_fallback_result"}

target_len == 48000
INT16_SCALE == 32768
HIGH_CONFIDENCE == 8500
MEDIUM_CONFIDENCE == 5500

----------------------------------------------------------------------------
(* Signals                                                                 *)

Abs(x) == IF x < 0 THEN -x ELSE x

Max2(a, b) == IF a >= b THEN a ELSE b

Run == [v : SampleValues, n : RunLengths]

RECURSIVE SeqsUpTo(_, _)
SeqsUpTo(S, k) ==
  IF k = 0 THEN {<<>>}
  ELSE LET shorter == SeqsUpTo(S, k - 1)
       IN  shorter \cup {Append(s, x) : s \in {q \in shorter : Len(q) = k - 1}, x \in S}

Audio == SeqsUpTo(Run, MaxRuns)

\* len(audio_float)
RECURSIVE Length(_)
Length(a) == IF a = <<>> THEN 0 ELSE Head(a).n + Length(Tail(a))

\* np.max(np.abs(audio_float)), for a non-empty signal
RECURSIVE Peak(_)
Peak(a) == IF a = <<>> THEN 0 ELSE Max2(Abs(Head(a).v), Peak(Tail(a)))

\* the sample at position i (1-based)
RECURSIVE At(_, _)
At(a, i) ==
  IF Head(a).n >= i THEN Head(a).v ELSE At(Tail(a), i - Head(a).n)

RECURSIVE NonZeroCount(_)
NonZeroCount(a) ==
  IF a = <<>> THEN 0
  ELSE (IF Head(a).v # 0 THEN Head(a).n ELSE 0) + NonZeroCount(Tail(a))

\* A float32 is held as a whole number of units of 1/FLOAT_ONE; every
\* quotient int16 / 32768.0 is such a number, exactly.
FLOAT_ONE == INT16_SCALE

\* Faulty variant: the divisor is the largest int16, 32767.
ToFloatInt16Max(x) == (x * FLOAT_ONE) \div (INT16_SCALE - 1)

\* audio_int16.astype(np.float32) / 32768.0, one sample
ToFloat(x) == (x * FLOAT_ONE) \div INT16_SCALE

\* the same, over the whole signal
AsFloat32(a) == [i \in 1 .. Len(a) |-> [v |-> ToFloat(a[i].v), n |-> a[i].n]]

\* mask = np.abs(audio_float) > gate_threshold, gate_threshold = max_amp * 0.30
GateKeeps(x, max_amp) == Abs(x) * 10 > max_amp * 3

\* audio_gated = audio_float * mask
NoiseGate(a) ==
  LET max_amp == Peak(a)
  IN  [i \in 1 .. Len(a) |->
         [v |-> IF GateKeeps(a[i].v, max_amp) THEN a[i].v ELSE 0, n |-> a[i].n]]

\* Faulty variant: the silence comparison is inverted.
IsSilentInverted(max_amp) == max_amp * 10 > INT16_SCALE

\* max_amp < 0.1
IsSilent(max_amp) == max_amp * 10 < INT16_SCALE

\* audio_float[:k]
RECURSIVE Take(_, _)
Take(a, k) ==
  IF k <= 0 \/ a = <<>> THEN <<>>
  ELSE IF Head(a).n >= k THEN <<[v |-> Head(a).v, n |-> k]>>
       ELSE <<Head(a)>> \o Take(Tail(a), k - Head(a).n)

\* np.pad(audio_float, (0, padding), 'constant')
Pad(a, padding) == IF padding > 0 THEN Append(a, [v |-> 0, n |-> padding]) ELSE a

\* Faulty variant: short signals are padded but long ones are not trimmed.
PadOnly(a) == Pad(a, target_len - Length(a))

\* Pad/Trim to target_len
PadTrim(a) ==
  IF Length(a) > target_len THEN Take(a, target_len)
  ELSE Pad(a, target_len - Length(a))

----------------------------------------------------------------------------
(* The frozen graph behind tflite.Interpreter.  It is some fixed function  *)
(* of the input tensor; the family below is indexed by the weights, so     *)
(* that every tensor can produce every probe vector.                       *)

OutputVectors ==
  << <<8600, 400, 400, 200, 200, 200>>,
     <<500, 8500, 400, 200, 200, 200>>,
     <<1000, 1000, 5501, 1000, 1000, 499>>,
     <<900, 900, 900, 5500, 900, 900>>,
     <<100, 100, 100, 100, 3000, 6600>>,
     << >>,
     <<1000, 1000, 1000, 1000, 1000, 1000, 4000>>,
     <<-3000, 25000, 1000, 0, 0, 0>> >>

Weights == 0 .. (Len(OutputVectors) - 1)

Forward(w, x) ==
  OutputVectors[((NonZeroCount(x) + Peak(x) + w) % Len(OutputVectors)) + 1]

----------------------------------------------------------------------------
(* Files                                                                   *)

NoFile == [kind |-> "absent", samples |-> <<>>]

\* "corrupt": not a RIFF/WAVE file (wave.open raises wave.Error);
\* "unreadable": stat succeeds, open fails (PermissionError);
\* "stat_error": stat itself fails with an errno other than ENOENT, ENOTDIR,
\* EBADF, ELOOP (a name longer than the system allows, a directory that may
\* not be searched).
Contents ==
  {[kind |-> "wav", samples |-> a] : a \in Audio}
    \cup {[kind |-> "corrupt", samples |-> <<>>], [kind |-> "unreadable", samples |-> <<>>],
          [kind |-> "stat_error", samples |-> <<>>]}

\* A WAV with two channels holds one signal per channel, frame by frame:
\* samples is the left channel, right the right one, each run one frame long.
Interleave(l, r) ==
  [i \in 1 .. 2 * Len(l) |-> IF i % 2 = 1 THEN l[(i + 1) \div 2] ELSE r[i \div 2]]

\* np.frombuffer(wf.readframes(wf.getnframes()), dtype=np.int16): the int16
\* words of the data chunk in file order, whatever the number of channels
FromBuffer(f) ==
  IF "right" \in DOMAIN f THEN Interleave(f.samples, f.right) ELSE f.samples

\* Path(audio_file_path).exists(): the outcomes of the call.  pathlib up to
\* Python 3.13 re-raises the OSError of a failed stat unless its errno is one
\* of the four it ignores; from 3.14 on it returns False.
ExistsOutcomes(files, p) ==
  IF files[p].kind = "absent" THEN {"False"}
  ELSE IF files[p].kind = "stat_error" THEN {"OSError", "False"}
  ELSE {"True"}

\* the path names a file that stat finds
Exists(files, p) == files[p].kind \notin {"absent", "stat_error"}

----------------------------------------------------------------------------
(* Results                                                                 *)

NoResult == [none |-> TRUE]

FileNotFoundResult ==
  [emotion |-> "neutral", intensity |-> "low", error |-> "File not found"]

\* Faulty variant: the fallback borrows the glyph and icon of the neutral entry.
FallbackAsNeutral(t) ==
  [emotion |-> "neutral", intensity |-> "low", color |-> "#9E9E9E",
   emoji |-> EMOTIONS.neutral.emoji, icon |-> EMOTIONS.neutral.icon, timestamp |-> t]

_get_fallback_result(t) ==
  [emotion |-> "neutral", intensity |-> "low", color |-> "#9E9E9E",
   emoji |-> "U+2753", icon |-> "help", timestamp |-> t]

\* np.argmax: the first index (0-based) of the maximum of a non-empty vector
ArgMax(o) ==
  (CHOOSE i \in 1 .. Len(o) :
     /\ \A j \in 1 .. Len(o) : o[j] <= o[i]
     /\ \A j \in 1 .. (i - 1) : o[j] < o[i]) - 1

\* Faulty variant: the tier boundaries are inclusive.
IntensityInclusive(confidence) ==
  IF confidence >= HIGH_CONFIDENCE THEN "high"
  ELSE IF confidence >= MEDIUM_CONFIDENCE THEN "medium"
  ELSE "low"

Intensity(confidence) ==
  IF confidence > HIGH_CONFIDENCE THEN "high"
  ELSE IF confidence > MEDIUM_CONFIDENCE THEN "medium"
  ELSE "low"

\* self.EMOTIONS.get(emotion_key, self.EMOTIONS['neutral'])
EmotionsGet(key) == IF key \in DOMAIN EMOTIONS THEN EMOTIONS[key] ELSE EMOTIONS["neutral"]

\* The exception the decoding of output vector o raises, or "none".
DecodeError(o) ==
  IF Len(o) = 0 THEN "ValueError"
  ELSE IF ArgMax(o) >= Len(MODEL_CLASSES) THEN "IndexError"
  ELSE IF Len(o) > Len(MODEL_CLASSES) THEN "IndexError"
  ELSE "none"

\* Faulty variant: the confidence is read from the first class, not the best one.
DecodeFirstScore(o, t) ==
  LET max_index == ArgMax(o)
      confidence == o[1]
      emotion_key == MODEL_CLASSES[max_index + 1]
      meta == EmotionsGet(emotion_key)
  IN  [emotion |-> emotion_key, intensity |-> Intensity(confidence),
       color |-> meta.color, emoji |-> meta.emoji, icon |-> meta.icon,
       timestamp |-> t, confidence |-> confidence]

Decode(o, t) ==
  LET max_index == ArgMax(o)
      confidence == o[max_index + 1]
      emotion_key == MODEL_CLASSES[max_index + 1]
      meta == EmotionsGet(emotion_key)
  IN  [emotion |-> emotion_key, intensity |-> Intensity(confidence),
       color |-> meta.color, emoji |-> meta.emoji, icon |-> meta.icon,
       timestamp |-> t, confidence |-> confidence]

\* except Exception as e
Catches(kind) == TRUE

----------------------------------------------------------------------------
(* State                                                                   *)

VARIABLES
  fs,              \* path -> file content
  workers,         \* the analysis threads the application may start
  interpreter,     \* self.interpreter: [loaded, weights, fails]
  loads,           \* how many times tflite.Interpreter(...) was constructed
  tensor_in,       \* the interpreter's input tensor buffer
  tensor_out,      \* the interpreter's output tensor buffer
  now,             \* time.time()
  pc,              \* per thread: position inside analyze_audio
  audio_file_path, \* per thread: the argument of the call
  input_tensor,    \* per thread: local input_tensor
  result,          \* per thread: the value returned
  caught,          \* per thread: the exception the except clause handled
  invoked,         \* per thread: the call reached interpreter.set_tensor
  ctor,            \* the frame of EmotionDetector.__init__ and the files it probes
  info,            \* the last get_emotion_info call: its argument and its value
  X,               \* training: the tensors load_dataset has collected
  y,               \* training: their labels
  walked,          \* training: the files os.walk has yielded so far
  vr,              \* the desktop VoiceRecorder object: its attributes
  threads,         \* the capture threads started so far and their streams
  ui,              \* the caller of the recorder's methods: position, last return
  clock,           \* time.time() as the recorder reads it
  paused_for,      \* how long the current recording has been paused in all
  saved,           \* the recordings stop_recording has written
  shown,           \* the last value get_recording_duration returned
  sidecars,        \* path of a recording -> its .json sidecar
  lib,             \* the last call of a library method: argument, return value
  mtimes,          \* the st_mtime of the recordings get_recordings lists
  streak           \* the last calculate_streak call: the time it ran, its value

vars ==
  <<fs, workers, interpreter, loads, tensor_in, tensor_out, now, pc,
    audio_file_path, input_tensor, result, caught, invoked,
    ctor, info, X, y, walked,
    vr, threads, ui, clock, paused_for, saved, shown, sidecars, lib,
    mtimes, streak>>

\* what the recorder and the recordings library own
capture == <<vr, threads, ui, clock, paused_for, saved, shown>>
library == <<sidecars, lib>>
habit == <<mtimes, streak>>
apps == <<capture, library, habit>>

\* what construction, metadata lookup and training own; analyze_audio reads none of it
offline == <<ctor, info, X, y, walked, apps>>

shared == <<fs, workers, interpreter, loads, now, offline>>

NoTensor == <<>>
ZeroTensor == <<[v |-> 0, n |-> target_len]>>
ZeroOutput == <<0, 0, 0, 0, 0, 0>>

\* The step at which the loaded graph rejects the (1, 48000, 1) float32
\* tensor, if any: the shape, type and size of the tensor are the same in
\* every call, so whether a step raises is a property of the loaded model.
FailModes == {"none", "set_tensor", "invoke", "get_tensor"}

NoInterpreter == [loaded |-> FALSE, weights |-> 0, fails |-> "none"]

\* EmotionDetector.__init__: found = the candidate directories that hold the
\* model file, tflite = a runtime was imported, loadOk = Interpreter(...) and
\* allocate_tensors() succeed, w and fails = the graph in the file.
ModelPath(found) ==
  IF "assets" \in found THEN "assets"
  ELSE IF "cwd" \in found THEN "cwd"
  ELSE IF "models" \in found THEN "models"
  ELSE "None"

EmotionDetector_init(found, tflite, loadOk, w, fails) ==
  LET model_path == ModelPath(found)
  IN  IF model_path # "None" /\ tflite
      THEN [interp |-> IF loadOk THEN [loaded |-> TRUE, weights |-> w, fails |-> fails]
                       ELSE NoInterpreter,
            loads |-> 1]
      ELSE [interp |-> NoInterpreter, loads |-> 0]

\* the graphs a model file may hold: a failing graph produces no output
Graphs ==
  {[weights |-> w, fails |-> "none"] : w \in Weights}
    \cup {[weights |-> 0, fails |-> f] : f \in FailModes}

InitDetector ==
  \E found \in SUBSET Candidates, tflite \in BOOLEAN, loadOk \in BOOLEAN, g \in Graphs :
    LET d == EmotionDetector_init(found, tflite, loadOk, g.weights, g.fails)
    IN  /\ interpreter = d.interp
        /\ loads = d.loads

InitLocals ==
  /\ tensor_in = ZeroTensor
  /\ tensor_out = ZeroOutput
  /\ now = 0
  /\ pc = [t \in Workers |-> "idle"]
  /\ audio_file_path = [t \in Workers |-> "rec1.wav"]
  /\ input_tensor = [t \in Workers |-> NoTensor]
  /\ result = [t \in Workers |-> NoResult]
  /\ caught = [t \in Workers |-> "none"]
  /\ invoked = [t \in Workers |-> FALSE]

\* The detector is constructed, nothing has been looked up or trained: the
\* constructor's frame is gone and the training lists are empty.
NoFrame == [pc |-> "returned"]
NoInfo == [called |-> FALSE]

\* None where the code keeps a time or a thread: the code only tests these
\* attributes for truth before it uses them, and a real time.time() or
\* thread is never falsy, so None and 0 behave alike.
NoTime == 0
NoThread == 0
FirstClock == 1

\* the capture threads start_recording may create, numbered in order
ThreadIds == 1 .. MaxStarts

\* VoiceRecorder.__init__
VoiceRecorder_init ==
  [recording |-> FALSE, paused |-> FALSE, audio_data |-> <<>>,
   recording_thread |-> NoThread, start_time |-> NoTime, pause_time |-> NoTime,
   total_pause_duration |-> 0]

\* no thread started: state is unborn / running (in the while loop) /
\* closing (left the loop, stream not closed yet) / dead; cb is the position
\* of the stream's callback, chunk the block it was handed, n how many it got
NoCapture == [state |-> "unborn", cb |-> "idle", chunk |-> [none |-> TRUE], n |-> 0]

\* recording and paused as a method finds them when it is called
Flags(self) == [recording |-> self.recording, paused |-> self.paused]
NoCall == [pc |-> "idle", op |-> "none", ret |-> "none", entry |-> Flags(VoiceRecorder_init)]

\* no sidecar, no library method called yet
NoSidecar == [kind |-> "absent"]
NoLibCall == [op |-> "none"]

InitCapture ==
  /\ vr = VoiceRecorder_init
  /\ threads = [th \in ThreadIds |-> NoCapture]
  /\ ui = NoCall
  /\ clock = FirstClock
  /\ paused_for = 0
  /\ saved = <<>>
  /\ shown = 0

\* no recording listed, calculate_streak not called yet
NoStreak == [called |-> FALSE]
InitHabit ==
  /\ mtimes = <<>>
  /\ streak = NoStreak

InitApps ==
  /\ InitCapture
  /\ sidecars = [p \in Paths |-> NoSidecar]
  /\ lib = NoLibCall
  /\ InitHabit

InitOffline ==
  /\ InitApps
  /\ ctor = NoFrame
  /\ info = NoInfo
  /\ X = <<>>
  /\ y = <<>>
  /\ walked = <<>>

\* One analysis thread, one recording of any content, one path that is absent.
Init ==
  /\ workers = {1}
  /\ \E c \in Contents : fs = [p \in Paths |-> IF p = "rec1.wav" THEN c ELSE NoFile]
  /\ InitDetector
  /\ InitLocals
  /\ InitOffline

----------------------------------------------------------------------------
(* analyze_audio, one thread t                                             *)

Return(t, r, exc) ==
  /\ pc' = [pc EXCEPT ![t] = "done"]
  /\ result' = [result EXCEPT ![t] = r]
  /\ caught' = [caught EXCEPT ![t] = exc]

\* An exception leaves analyze_audio: the calling thread dies with it.
Escape(t) ==
  /\ pc' = [pc EXCEPT ![t] = "raised"]
  /\ UNCHANGED <<result, caught>>

\* An exception of this kind is raised inside the try block.
Throw(t, kind) ==
  IF Catches(kind)
  THEN Return(t, _get_fallback_result(now), kind)
  ELSE Escape(t)

\* threading.Thread(target=detect_emotion).start(): analyze_audio(p) begins
Call(t, p) ==
  /\ t \in workers
  /\ pc[t] = "idle"
  /\ pc' = [pc EXCEPT ![t] = "check"]
  /\ audio_file_path' = [audio_file_path EXCEPT ![t] = p]
  /\ UNCHANGED <<shared, tensor_in, tensor_out, input_tensor, result, caught, invoked>>

\* Faulty variant: the model-unavailable fallback is taken before the file check.
CheckFileModelFirst(t) ==
  /\ pc[t] = "check"
  /\ IF ~interpreter.loaded
     THEN Return(t, _get_fallback_result(now), "none")
     ELSE \E exists \in ExistsOutcomes(fs, audio_file_path[t]) :
            IF exists = "OSError"
            THEN Escape(t)
            ELSE IF exists = "False"
            THEN Return(t, FileNotFoundResult, "none")
            ELSE /\ pc' = [pc EXCEPT ![t] = "load"]
                 /\ UNCHANGED <<result, caught>>
  /\ UNCHANGED <<shared, tensor_in, tensor_out, audio_file_path, input_tensor, invoked>>

\* Faulty variant: a call that finds no interpreter tries to load the model again.
CheckFileLazyLoad(t) ==
  /\ pc[t] = "check"
  /\ \E exists \in ExistsOutcomes(fs, audio_file_path[t]) :
       IF exists = "OSError"
       THEN Escape(t) /\ UNCHANGED <<interpreter, loads>>
       ELSE IF exists = "False"
       THEN Return(t, FileNotFoundResult, "none") /\ UNCHANGED <<interpreter, loads>>
       ELSE /\ pc' = [pc EXCEPT ![t] = "load"]
            /\ interpreter' = IF interpreter.loaded THEN interpreter
                              ELSE [loaded |-> TRUE, weights |-> 0, fails |-> "none"]
            /\ loads' = IF interpreter.loaded THEN loads ELSE loads + 1
            /\ UNCHANGED <<result, caught>>
  /\ UNCHANGED <<offline, fs, workers, now, tensor_in, tensor_out, audio_file_path,
                 input_tensor, invoked>>

\* the two early returns before the try block
CheckFile(t) ==
  /\ pc[t] = "check"
  /\ \E exists \in ExistsOutcomes(fs, audio_file_path[t]) :
       IF exists = "OSError"
       THEN Escape(t)
       ELSE IF exists = "False"
       THEN Return(t, FileNotFoundResult, "none")
       ELSE IF ~interpreter.loaded
       THEN Return(t, _get_fallback_result(now), "none")
       ELSE /\ pc' = [pc EXCEPT ![t] = "load"]
            /\ UNCHANGED <<result, caught>>
  /\ UNCHANGED <<shared, tensor_in, tensor_out, audio_file_path, input_tensor, invoked>>

\* steps 1 to 4 of the try block: read the file, gate, silence check, pad/trim
Condition(t) ==
  /\ pc[t] = "load"
  /\ LET f == fs[audio_file_path[t]]
         audio_float == NoiseGate(AsFloat32(FromBuffer(f)))
     IN  IF f.kind \in {"absent", "stat_error"}
         THEN Throw(t, "FileNotFoundError") /\ UNCHANGED input_tensor
         ELSE IF f.kind = "unreadable" THEN Throw(t, "PermissionError") /\ UNCHANGED input_tensor
         ELSE IF f.kind = "corrupt" THEN Throw(t, "wave.Error") /\ UNCHANGED input_tensor
         ELSE IF Length(FromBuffer(f)) = 0 THEN Throw(t, "ValueError") /\ UNCHANGED input_tensor
         ELSE IF IsSilent(Peak(audio_float))
              THEN /\ "_build_result" \notin Methods
                   /\ Throw(t, "AttributeError")
                   /\ UNCHANGED input_tensor
         ELSE /\ input_tensor' = [input_tensor EXCEPT ![t] = PadTrim(audio_float)]
              /\ pc' = [pc EXCEPT ![t] = "set_tensor"]
              /\ UNCHANGED <<result, caught>>
  /\ UNCHANGED <<shared, tensor_in, tensor_out, audio_file_path, invoked>>

\* self.interpreter.set_tensor(index, input_tensor)
SetTensor(t) ==
  /\ pc[t] = "set_tensor"
  /\ invoked' = [invoked EXCEPT ![t] = TRUE]
  /\ IF interpreter.fails = "set_tensor"
     THEN /\ Throw(t, "ValueError")
          /\ UNCHANGED tensor_in
     ELSE /\ tensor_in' = input_tensor[t]
          /\ pc' = [pc EXCEPT ![t] = "invoke"]
          /\ UNCHANGED <<result, caught>>
  /\ UNCHANGED <<shared, tensor_out, audio_file_path, input_tensor>>

\* Faulty variant: the graph keeps internal state from one invocation to the next.
InvokeStateful(t) ==
  /\ pc[t] = "invoke"
  /\ IF interpreter.fails = "invoke"
     THEN /\ Throw(t, "RuntimeError")
          /\ UNCHANGED <<tensor_out, interpreter>>
     ELSE /\ tensor_out' = Forward(interpreter.weights, tensor_in)
          /\ interpreter' =
               [interpreter EXCEPT !.weights = (@ + 1) % Len(OutputVectors)]
          /\ pc' = [pc EXCEPT ![t] = "get_tensor"]
          /\ UNCHANGED <<result, caught>>
  /\ UNCHANGED <<fs, workers, loads, now, tensor_in, audio_file_path, input_tensor,
                 invoked, offline>>

\* self.interpreter.invoke()
Invoke(t) ==
  /\ pc[t] = "invoke"
  /\ IF interpreter.fails = "invoke"
     THEN /\ Throw(t, "RuntimeError")
          /\ UNCHANGED tensor_out
     ELSE /\ tensor_out' = Forward(interpreter.weights, tensor_in)
          /\ pc' = [pc EXCEPT ![t] = "get_tensor"]
          /\ UNCHANGED <<result, caught>>
  /\ UNCHANGED <<shared, tensor_in, audio_file_path, input_tensor, invoked>>

\* output_data = self.interpreter.get_tensor(index)[0], then the decoding
GetTensor(t) ==
  /\ pc[t] = "get_tensor"
  /\ IF interpreter.fails = "get_tensor"
     THEN Throw(t, "ValueError")
     ELSE LET output_data == tensor_out
          IN  IF DecodeError(output_data) # "none"
              THEN Throw(t, DecodeError(output_data))
              ELSE Return(t, Decode(output_data, now), "none")
  /\ UNCHANGED <<shared, tensor_in, tensor_out, audio_file_path, input_tensor, invoked>>

\* the caller has consumed the result; the thread ends
Finish(t) ==
  /\ pc[t] = "done"
  /\ pc' = [pc EXCEPT ![t] = "idle"]
  /\ input_tensor' = [input_tensor EXCEPT ![t] = NoTensor]
  /\ result' = [result EXCEPT ![t] = NoResult]
  /\ caught' = [caught EXCEPT ![t] = "none"]
  /\ invoked' = [invoked EXCEPT ![t] = FALSE]
  /\ UNCHANGED <<shared, tensor_in, tensor_out, audio_file_path>>

Tick ==
  /\ now < MaxTime
  /\ now' = now + 1
  /\ UNCHANGED <<fs, workers, interpreter, loads, tensor_in, tensor_out, pc,
                 audio_file_path, input_tensor, result, caught, invoked, offline>>

Next ==
  \/ \E t \in Workers, p \in Paths : Call(t, p)
  \/ \E t \in Workers : CheckFile(t)
  \/ \E t \in Workers : Condition(t)
  \/ \E t \in Workers : SetTensor(t)
  \/ \E t \in Workers : Invoke(t)
  \/ \E t \in Workers : GetTensor(t)
  \/ \E t \in Workers : Finish(t)
  \/ Tick

Spec == Init /\ [][Next]_vars

\* Two analysis threads on one detector, each recording a single-run clip.
ConcContents == {[kind |-> "wav", samples |-> <<r>>] : r \in {x \in Run : x.n = 32000}}

InitConc ==
  /\ workers = Workers
  /\ fs \in [Paths -> ConcContents]
  /\ InitDetector
  /\ InitLocals
  /\ InitOffline

SpecConc == InitConc /\ [][Next]_vars

----------------------------------------------------------------------------
(* Properties                                                              *)

Samples(t) == fs[audio_file_path[t]].samples

IsWav(t) == fs[audio_file_path[t]].kind = "wav"

IsFallback(r) == \E ts \in 0 .. MaxTime : r = _get_fallback_result(ts)

\* C1: analyze_audio never raises: no call ends with an exception crossing
\* the call boundary, no call is stuck inside the method, and a call that has
\* returned has returned a result dict (it carries emotion and intensity).
C1_NeverRaises ==
  \A t \in Workers :
    /\ pc[t] # "raised"
    /\ pc[t] = "done" => {"emotion", "intensity"} \subseteq DOMAIN result[t]
    /\ pc[t] \in {"check", "load", "set_tensor", "invoke", "get_tensor"} =>
         ENABLED (CheckFile(t) \/ Condition(t) \/ SetTensor(t) \/ Invoke(t) \/ GetTensor(t))

\* C2: when the path does not exist, the call returns neutral / low with an
\* explicit error marker and never reaches the interpreter, whether or not a
\* model was loaded.
C2_MissingFile ==
  \A t \in Workers :
    (pc[t] = "done" /\ fs[audio_file_path[t]].kind = "absent") =>
      /\ result[t].emotion = "neutral"
      /\ result[t].intensity = "low"
      /\ "error" \in DOMAIN result[t]
      /\ ~invoked[t]
      /\ caught[t] = "none"

\* the path is absent and no model is loaded
C2_Witness ==
  \E t \in Workers :
    /\ pc[t] = "done"
    /\ fs[audio_file_path[t]].kind = "absent"
    /\ ~interpreter.loaded
    /\ result[t] = FileNotFoundResult

\* C3: every returned result has the keys of a successful result: emotion,
\* intensity, color, emoji, icon and timestamp.
C3_SameShape ==
  \A t \in Workers :
    pc[t] = "done" =>
      {"emotion", "intensity", "color", "emoji", "icon", "timestamp"}
        \subseteq DOMAIN result[t]

\* C4: a corrupted or unreadable existing file yields the fallback result
\* with an error flag in it.
C4_CorruptFlagged ==
  \A t \in Workers :
    (pc[t] = "done" /\ fs[audio_file_path[t]].kind \in {"corrupt", "unreadable"}) =>
      /\ result[t].emotion = "neutral"
      /\ result[t].intensity = "low"
      /\ "error" \in DOMAIN result[t]

C6_SilenceIsNoError ==
  \A t \in Workers :
    (/\ pc[t] = "done"
     /\ interpreter.loaded
     /\ IsWav(t)
     /\ Length(Samples(t)) > 0
     /\ IsSilent(Peak(NoiseGate(Samples(t))))) =>
      /\ caught[t] = "none"
      /\ "confidence" \in DOMAIN result[t]
      /\ result[t].emoji # "U+2753"
      /\ result[t].icon # "help"

RECURSIVE Breaks(_, _)
Breaks(a, base) ==
  IF a = <<>> THEN {}
  ELSE {base + Head(a).n, base + Head(a).n + 1} \cup Breaks(Tail(a), base + Head(a).n)

ProbeIdx(a, x) ==
  (Breaks(a, 0) \cup Breaks(x, 0) \cup {1, target_len}) \cap (1 .. target_len)

\* C8: whenever the model is invoked the conditioned signal has exactly
\* 48000 samples: the gated input (all of it, or its first 48000 samples)
\* followed by zeros up to 48000.
C8_FixedLength ==
  \A t \in Workers :
    pc[t] \in {"set_tensor", "invoke", "get_tensor"} =>
      LET a == Samples(t)
          g == NoiseGate(a)
          n == Length(a)
          x == input_tensor[t]
      IN  /\ Length(x) = 48000
          /\ \A i \in ProbeIdx(a, x) :
               At(x, i) = IF i <= n THEN At(g, i) ELSE 0

\* a clip longer than 48000 samples, loud at both ends, is about to be invoked
C8_Witness ==
  \E t \in Workers :
    /\ pc[t] = "invoke"
    /\ Length(Samples(t)) > 48000
    /\ At(input_tensor[t], 1) # 0
    /\ At(input_tensor[t], 48000) # 0

\* C9: the interpreter is created at most once, at construction; no call of
\* analyze_audio loads or replaces it; without an interpreter every call on
\* an existing file returns the fallback result and never reaches the model.
C9_LoadOnce ==
  /\ [](loads <= 1)
  /\ [][interpreter' = interpreter /\ loads' = loads]_vars
  /\ [](\A t \in Workers :
          (pc[t] = "done" /\ ~interpreter.loaded /\ Exists(fs, audio_file_path[t])) =>
            (IsFallback(result[t]) /\ ~invoked[t]))

\* the load failed at construction, and a later call on a valid loud clip fell back
C9_Witness ==
  \E t \in Workers :
    /\ pc[t] = "done"
    /\ ~interpreter.loaded
    /\ loads = 1
    /\ IsWav(t)
    /\ Peak(Samples(t)) = 32767
    /\ IsFallback(result[t])

\* C10: with several threads on one detector, each successful call's result
\* is decoded from the model output for its own input tensor.
C10_OwnOutput ==
  \A t \in Workers :
    (pc[t] = "done" /\ invoked[t] /\ caught[t] = "none") =>
      LET own == Forward(interpreter.weights, input_tensor[t])
      IN  /\ DecodeError(own) = "none"
          /\ \E ts \in 0 .. MaxTime : result[t] = Decode(own, ts)

----------------------------------------------------------------------------
(* Calls made one at a time: two callers of one detector, of which at most *)
(* one is inside analyze_audio at any moment.                              *)

SeqContents == {c \in Contents : Len(c.samples) <= 1}

LoudClip == [kind |-> "wav", samples |-> <<[v |-> 32767, n |-> 48000]>>]

InitSeq ==
  /\ workers = Workers
  /\ \E c \in SeqContents, d \in {NoFile, LoudClip} :
       fs = [p \in Paths |-> IF p = "rec1.wav" THEN c ELSE d]
  /\ InitDetector
  /\ InitLocals
  /\ InitOffline

InFlight(t) == pc[t] \in {"check", "load", "set_tensor", "invoke", "get_tensor"}

NextSeq ==
  /\ Next
  /\ \A t1, t2 \in Workers : (InFlight(t1)' /\ InFlight(t2)') => t1 = t2

SpecSeq == InitSeq /\ [][NextSeq]_vars

\* a result without its timestamp
StripTimestamp(r) == [k \in (DOMAIN r) \ {"timestamp"} |-> r[k]]

RECURSIVE SumSeq(_)
SumSeq(o) == IF o = <<>> THEN 0 ELSE Head(o) + SumSeq(Tail(o))

\* C12: the vector the decoder consumes has exactly len(MODEL_CLASSES)
\* entries and sums to 1, so the reported confidence lies in [0, 1].
C12_ProbabilityVector ==
  \A t \in Workers :
    (pc[t] = "done" /\ "confidence" \in DOMAIN result[t]) =>
      /\ Len(tensor_out) = Len(MODEL_CLASSES)
      /\ SumSeq(tensor_out) = 10000
      /\ 0 <= result[t].confidence
      /\ result[t].confidence <= 10000

\* C13: on the success path emotion is the class of the largest entry of the
\* output vector (the first such entry), confidence is that entry, and color,
\* emoji and icon are the EMOTIONS entry of that emotion.
C13_Decoded ==
  \A t \in Workers :
    (pc[t] = "done" /\ "confidence" \in DOMAIN result[t]) =>
      LET p == tensor_out
          r == result[t]
      IN  \E i \in 1 .. Len(p) :
            /\ \A j \in 1 .. Len(p) : p[j] <= p[i]
            /\ \A j \in 1 .. (i - 1) : p[j] < p[i]
            /\ r.emotion = MODEL_CLASSES[i]
            /\ r.confidence = p[i]
            /\ r.color = EMOTIONS[r.emotion].color
            /\ r.emoji = EMOTIONS[r.emotion].emoji
            /\ r.icon = EMOTIONS[r.emotion].icon

\* the last class wins with 0.66
C13_Witness ==
  \E t \in Workers :
    /\ pc[t] = "done"
    /\ "confidence" \in DOMAIN result[t]
    /\ result[t].emotion = "disgust"
    /\ result[t].confidence = 6600
    /\ result[t].icon = "sick"

----------------------------------------------------------------------------
(* Strings as sequences of characters; str.lower()                         *)

LowerCase ==
  [A |-> "a", B |-> "b", C |-> "c", D |-> "d", E |-> "e", F |-> "f", G |-> "g",
   H |-> "h", I |-> "i", J |-> "j", K |-> "k", L |-> "l", M |-> "m", N |-> "n",
   O |-> "o", P |-> "p", Q |-> "q", R |-> "r", S |-> "s", T |-> "t", U |-> "u",
   V |-> "v", W |-> "w", X |-> "x", Y |-> "y", Z |-> "z"]

\* str.lower(): the cased characters are replaced, every other one is kept
Lower(cs) ==
  [i \in 1 .. Len(cs) |-> IF cs[i] \in DOMAIN LowerCase THEN LowerCase[cs[i]] ELSE cs[i]]

\* the string a sequence of characters spells
RECURSIVE Str(_)
Str(cs) == IF cs = <<>> THEN "" ELSE Head(cs) \o Str(Tail(cs))

----------------------------------------------------------------------------
(* ml/train_and_export.py: the label encoding and the loader                *)

DATASET == "CREMAD"

RAVDESS_EMOTIONS ==
  << <<"N","e","u","t","r","a","l">>, <<"C","a","l","m">>,
     <<"H","a","p","p","y">>, <<"S","a","d">>, <<"A","n","g","r","y">>,
     <<"F","e","a","r","f","u","l">>, <<"D","i","s","g","u","s","t">>,
     <<"S","u","r","p","r","i","s","e","d">> >>

CREMAD_EMOTIONS ==
  << <<"N","e","u","t","r","a","l">>, <<"H","a","p","p","y">>,
     <<"S","a","d">>, <<"A","n","g","r","y">>,
     <<"F","e","a","r","f","u","l">>, <<"D","i","s","g","u","s","t">> >>

TRAIN_EMOTIONS == IF DATASET = "RAVDESS" THEN RAVDESS_EMOTIONS ELSE CREMAD_EMOTIONS

NUM_CLASSES == Len(TRAIN_EMOTIONS)

SAMPLE_RATE == 16000
DURATION == 3
INPUT_LEN == SAMPLE_RATE * DURATION

crema_map == [NEU |-> 0, HAP |-> 1, SAD |-> 2, ANG |-> 3, FEA |-> 4, DIS |-> 5, DES |-> 5]

\* The files os.walk may yield: ext is the file name's extension, code the
\* third "_"-separated part of the name ("none": the name has fewer parts),
\* content what the file holds (a 16 kHz mono recording when it is a wav).
TrainContents ==
  {[kind |-> "wav", samples |-> <<[v |-> 32767, n |-> 48000]>>],
   [kind |-> "wav", samples |-> <<[v |-> 32767, n |-> 1], [v |-> 3276, n |-> 32000]>>],
   [kind |-> "corrupt", samples |-> <<>>]}

TrainFiles ==
  [ext : {".wav", ".txt"},
   code : (DOMAIN crema_map) \cup {"XXX", "none"},
   content : TrainContents]

\* load_audio_file: librosa.load, then the first INPUT_LEN samples or zeros
\* appended at the end; None (here NoTensor) when the file cannot be decoded.
load_audio_file(content) ==
  IF content.kind # "wav" THEN NoTensor
  ELSE LET audio == AsFloat32(content.samples)
       IN  IF Length(audio) > INPUT_LEN THEN Take(audio, INPUT_LEN)
           ELSE Pad(audio, INPUT_LEN - Length(audio))

\* label is not None: the name has a third part and crema_map knows it
HasLabel(file) ==
  /\ file.code # "none"
  /\ DATASET = "CREMAD"
  /\ file.code \in DOMAIN crema_map

\* label = crema_map[code]
Label(file) == crema_map[file.code]

\* the file ends up in X and y
Kept(file) ==
  /\ file.ext = ".wav"
  /\ HasLabel(file)
  /\ load_audio_file(file.content) # NoTensor

\* one iteration of the loop over the files of load_dataset
LoadFile(file) ==
  /\ Len(walked) < MaxFiles
  /\ walked' = Append(walked, file)
  /\ IF Kept(file)
     THEN /\ X' = Append(X, load_audio_file(file.content))
          /\ y' = Append(y, Label(file))
     ELSE UNCHANGED <<X, y>>
  /\ UNCHANGED <<fs, workers, interpreter, loads, tensor_in, tensor_out, now, pc,
                 audio_file_path, input_tensor, result, caught, invoked, ctor, info, apps>>

InitTrain ==
  /\ workers = {}
  /\ fs = [p \in Paths |-> NoFile]
  /\ interpreter = NoInterpreter
  /\ loads = 0
  /\ InitLocals
  /\ InitOffline

NextTrain == \E file \in TrainFiles : LoadFile(file)

SpecTrain == InitTrain /\ [][NextTrain]_vars

\* the files behind X and y, in their order
KeptFiles == SelectSeq(walked, Kept)

\* the CREMA-D codes and the class index each stands for
ClaimedCodes ==
  [NEU |-> 0, HAP |-> 1, SAD |-> 2, ANG |-> 3, FEA |-> 4, DIS |-> 5]

CodeChars ==
  [NEU |-> <<"N","E","U">>, HAP |-> <<"H","A","P">>, SAD |-> <<"S","A","D">>,
   ANG |-> <<"A","N","G">>, FEA |-> <<"F","E","A">>, DIS |-> <<"D","I","S">>]

\* C14: the decoding order is the training label encoding: MODEL_CLASSES[i]
\* is the lower-cased training EMOTIONS[i] for each of the six indices, every
\* training example whose file carries one of the codes NEU, HAP, SAD, ANG,
\* FEA, DIS is labelled 0, 1, 2, 3, 4, 5 in that order, and the class that
\* MODEL_CLASSES decodes this label to is the emotion the code abbreviates.
C14_LabelEncoding ==
  /\ Len(MODEL_CLASSES) = 6
  /\ NUM_CLASSES = 6
  /\ \A i \in 1 .. 6 : MODEL_CLASSES[i] = Str(Lower(TRAIN_EMOTIONS[i]))
  /\ Len(y) = Len(KeptFiles)
  /\ \A k \in 1 .. Len(y) :
       LET code == KeptFiles[k].code
       IN  code \in DOMAIN ClaimedCodes =>
             /\ y[k] = ClaimedCodes[code]
             /\ Str(Lower(SubSeq(TRAIN_EMOTIONS[y[k] + 1], 1, 3)))
                  = Str(Lower(CodeChars[code]))
             /\ MODEL_CLASSES[y[k] + 1] = Str(Lower(TRAIN_EMOTIONS[y[k] + 1]))

\* two examples are in the training set, the second one coded DIS
C14_Witness ==
  /\ Len(y) = 2
  /\ KeptFiles[2].code = "DIS"
  /\ y[2] = 5
  /\ KeptFiles[1].code = "HAP"

\* the two signals have the same length and the same sample at every position
SameSignal(a, b) ==
  /\ Length(a) = Length(b)
  /\ \A i \in (Breaks(a, 0) \cup Breaks(b, 0) \cup {1}) \cap (1 .. Length(a)) :
       At(a, i) = At(b, i)

\* C15: the tensor analyze_audio hands to the model is the tensor the
\* training loader load_audio_file makes of the same recording: the same
\* amplitudes, the same first 48000 samples, the same zeros at the end.
C15_SameAsTraining ==
  \A t \in Workers :
    pc[t] \in {"set_tensor", "invoke", "get_tensor"} =>
      SameSignal(input_tensor[t], load_audio_file(fs[audio_file_path[t]]))

----------------------------------------------------------------------------
(* The noise gate at its threshold                                         *)

\* Recordings whose samples lie at, just below and just above 0.30 of the
\* peak 32760: 0.30 * 32760 = 9828 exactly, in the reals and in float32.
GateValues == {0, 9827, 9828, -9828, 9829, 32760}
GateLengths == {1, 2}

GateContents ==
  {[kind |-> "wav", samples |-> a] :
     a \in SeqsUpTo([v : GateValues, n : GateLengths], MaxRuns)}

InitGate ==
  /\ workers = {1}
  /\ \E c \in GateContents : fs = [p \in Paths |-> IF p = "rec1.wav" THEN c ELSE NoFile]
  /\ InitDetector
  /\ InitLocals
  /\ InitOffline

SpecGate == InitGate /\ [][Next]_vars

\* C16: with T = 0.30 * max|x|, the gate zeroes exactly the samples with
\* |x| < T and leaves every sample with |x| >= T as it was, a sample with
\* |x| = T included; so the peak after the gate is the peak before it.
C16_KeepsAtThreshold ==
  \A t \in Workers :
    pc[t] \in {"set_tensor", "invoke", "get_tensor"} =>
      LET a == Samples(t)
          max_amp == Peak(a)
          x == input_tensor[t]
      IN  /\ \A i \in 1 .. Length(a) :
               At(x, i) = IF Abs(At(a, i)) * 10 >= max_amp * 3 THEN At(a, i) ELSE 0
          /\ Peak(x) = max_amp

\* C17: every sample of the conditioned signal lies in [-1.0, 1.0], whatever
\* int16 samples the recording holds, -32768 and 32767 included.
C17_UnitRange ==
  \A t \in Workers :
    pc[t] \in {"set_tensor", "invoke", "get_tensor"} =>
      \A k \in 1 .. Len(input_tensor[t]) :
        /\ input_tensor[t][k].v >= -FLOAT_ONE
        /\ input_tensor[t][k].v <= FLOAT_ONE

\* a recording holding both extreme samples has been conditioned: -32768
\* became -1.0 and 32767 stayed below 1.0
C17_Witness ==
  \E t \in Workers :
    /\ pc[t] = "invoke"
    /\ \E k \in 1 .. Len(Samples(t)) : Samples(t)[k].v = -32768
    /\ \E k \in 1 .. Len(Samples(t)) : Samples(t)[k].v = 32767
    /\ \E k \in 1 .. Len(input_tensor[t]) : input_tensor[t][k].v = -FLOAT_ONE
    /\ \E k \in 1 .. Len(input_tensor[t]) :
         input_tensor[t][k].v > 0 /\ input_tensor[t][k].v < FLOAT_ONE

----------------------------------------------------------------------------
(* EmotionDetector.__init__, step by step                                  *)

\* paths_to_check, in the order of the list
CandidateOrder == <<"assets", "cwd", "models">>

\* what the three candidate paths may be on disk
ModelFiles ==
  [Candidates -> {[kind |-> "absent"], [kind |-> "model"], [kind |-> "stat_error"]}]

\* the constructor is entered: self.interpreter = None, nothing probed yet;
\* tflite is the runtime the module imported, or None (FALSE)
InitStartup ==
  /\ workers = {}
  /\ fs = [p \in Paths |-> NoFile]
  /\ interpreter = NoInterpreter
  /\ loads = 0
  /\ InitLocals
  /\ info = NoInfo
  /\ X = <<>>
  /\ y = <<>>
  /\ walked = <<>>
  /\ InitApps
  /\ \E files \in ModelFiles, tflite \in BOOLEAN :
       ctor = [pc |-> "probe", files |-> files, tflite |-> tflite, i |-> 1,
               model_path |-> "None"]

\* Faulty variant: the scan goes on after a match, so the last existing candidate wins.
ProbeLastWins ==
  /\ ctor.pc = "probe"
  /\ LET p == CandidateOrder[ctor.i]
         last == ctor.i = Len(CandidateOrder)
     IN  \E exists \in ExistsOutcomes(ctor.files, p) :
           IF exists = "OSError"
           THEN ctor' = [ctor EXCEPT !.pc = "raised"]
           ELSE ctor' = [ctor EXCEPT !.pc = IF last THEN "load" ELSE "probe",
                                     !.i = IF last THEN @ ELSE @ + 1,
                                     !.model_path = IF exists = "True" THEN p ELSE @]
  /\ UNCHANGED <<fs, workers, interpreter, loads, tensor_in, tensor_out, now, pc,
                 audio_file_path, input_tensor, result, caught, invoked, info, X, y,
                 walked, apps>>

\* one step of next((p for p in paths_to_check if p.exists()), None)
Probe ==
  /\ ctor.pc = "probe"
  /\ LET p == CandidateOrder[ctor.i]
     IN  \E exists \in ExistsOutcomes(ctor.files, p) :
           IF exists = "OSError"
           THEN ctor' = [ctor EXCEPT !.pc = "raised"]
           ELSE IF exists = "True"
           THEN ctor' = [ctor EXCEPT !.pc = "load", !.model_path = p]
           ELSE IF ctor.i = Len(CandidateOrder)
           THEN ctor' = [ctor EXCEPT !.pc = "load"]
           ELSE ctor' = [ctor EXCEPT !.i = @ + 1]
  /\ UNCHANGED <<fs, workers, interpreter, loads, tensor_in, tensor_out, now, pc,
                 audio_file_path, input_tensor, result, caught, invoked, info, X, y,
                 walked, apps>>

\* if model_path and tflite: try Interpreter(...), allocate_tensors() except: print
Load ==
  /\ ctor.pc = "load"
  /\ \E loadOk \in BOOLEAN, g \in Graphs :
       LET found == IF ctor.model_path = "None" THEN {} ELSE {ctor.model_path}
           d == EmotionDetector_init(found, ctor.tflite, loadOk, g.weights, g.fails)
       IN  /\ interpreter' = d.interp
           /\ loads' = d.loads
  /\ ctor' = [ctor EXCEPT !.pc = "done"]
  /\ UNCHANGED <<fs, workers, tensor_in, tensor_out, now, pc, audio_file_path,
                 input_tensor, result, caught, invoked, info, X, y, walked, apps>>

NextStartup == Probe \/ Load

SpecStartup == InitStartup /\ [][NextStartup]_vars

\* the candidates that exist
Present == {c \in Candidates : ctor.files[c].kind = "model"}

\* C18: the model file the constructor uses is the first existing candidate
\* in the order assets, current directory, models, never a later one when an
\* earlier one exists; only that file is ever loaded; and when no candidate
\* exists the constructor runs to its end without raising and leaves the
\* detector without an interpreter.
C18_FirstCandidate ==
  /\ ctor.pc \in {"load", "done"} => ctor.model_path = ModelPath(Present)
  /\ ctor.model_path # "None" =>
       /\ ctor.model_path \in Present
       /\ \A j \in 1 .. Len(CandidateOrder) :
            CandidateOrder[j] \in Present =>
              \E k \in 1 .. j : CandidateOrder[k] = ctor.model_path
  /\ loads > 0 => (ctor.pc = "done" /\ ctor.model_path # "None")
  /\ (\A c \in Candidates : ctor.files[c].kind = "absent") =>
       /\ ctor.pc # "raised"
       /\ ctor.pc # "done" => ENABLED NextStartup
       /\ ctor.pc = "done" => (~interpreter.loaded /\ loads = 0)

\* the model is in the current directory and in models/, not in assets/:
\* the constructor has loaded the one of the current directory
C18_Witness ==
  /\ ctor.pc = "done"
  /\ ctor.files["assets"].kind = "absent"
  /\ ctor.files["cwd"].kind = "model"
  /\ ctor.files["models"].kind = "model"
  /\ ctor.model_path = "cwd"
  /\ interpreter.loaded

----------------------------------------------------------------------------

\* the call of thread t ended on the fallback path: no interpreter for an
\* existing file, or an exception caught by the except clause
TookFallback(t) ==
  /\ pc[t] = "done"
  /\ \/ caught[t] # "none"
     \/ Exists(fs, audio_file_path[t]) /\ ~interpreter.loaded

\* the call of thread t ended with a decoded result
Succeeded(t) ==
  /\ pc[t] = "done"
  /\ caught[t] = "none"
  /\ invoked[t]

\* C19: the fallback result (no model, or any exception while reading,
\* conditioning, invoking or decoding) is one fixed record: neutral, low,
\* grey, the question-mark glyph U+2753 and the icon help, with nothing but
\* the time it was built varying; that glyph and that icon belong to no
\* entry of EMOTIONS, so no decoded result carries them.
C19_FallbackDistinct ==
  /\ \A t \in Workers :
       TookFallback(t) =>
         /\ DOMAIN result[t] =
              {"emotion", "intensity", "color", "emoji", "icon", "timestamp"}
         /\ StripTimestamp(result[t]) =
              [emotion |-> "neutral", intensity |-> "low", color |-> "#9E9E9E",
               emoji |-> "U+2753", icon |-> "help"]
         /\ \A e \in DOMAIN EMOTIONS :
              /\ EMOTIONS[e].emoji # result[t].emoji
              /\ EMOTIONS[e].icon # result[t].icon
  /\ \A t \in Workers :
       Succeeded(t) =>
         /\ \E e \in DOMAIN EMOTIONS :
              result[t].emoji = EMOTIONS[e].emoji /\ result[t].icon = EMOTIONS[e].icon
         /\ \A ts \in 0 .. MaxTime :
              /\ result[t].emoji # _get_fallback_result(ts).emoji
              /\ result[t].icon # _get_fallback_result(ts).icon

\* a call fell back because the model raised in invoke, after the clock moved
C19_Witness ==
  \E t \in Workers :
    /\ TookFallback(t)
    /\ caught[t] = "RuntimeError"
    /\ interpreter.loaded
    /\ result[t].timestamp = 1
    /\ result[t].emoji = "U+2753"

----------------------------------------------------------------------------
(* get_emotion_info                                                        *)

\* The label strings a caller may pass: every string of at most MaxNameLen
\* characters over a small alphabet, and the labels of the six-class and the
\* eight-class model, capitalised and in lower case.
Alphabet == {"s", "a", "d", "S", "A", "D"}

Names ==
  SeqsUpTo(Alphabet, MaxNameLen)
    \cup {RAVDESS_EMOTIONS[i] : i \in 1 .. Len(RAVDESS_EMOTIONS)}
    \cup {Lower(RAVDESS_EMOTIONS[i]) : i \in 1 .. Len(RAVDESS_EMOTIONS)}

\* Faulty variant: the name is looked up as it is, without lower().
get_emotion_info_AsIs(emotion_name) ==
  /\ info' = [called |-> TRUE, emotion_name |-> emotion_name,
              value |-> EmotionsGet(Str(emotion_name))]
  /\ UNCHANGED <<fs, workers, interpreter, loads, tensor_in, tensor_out, now, pc,
                 audio_file_path, input_tensor, result, caught, invoked, ctor, X, y,
                 walked, apps>>

\* return self.EMOTIONS.get(emotion_name.lower(), self.EMOTIONS['neutral'])
get_emotion_info(emotion_name) ==
  /\ info' = [called |-> TRUE, emotion_name |-> emotion_name,
              value |-> EmotionsGet(Str(Lower(emotion_name)))]
  /\ UNCHANGED <<fs, workers, interpreter, loads, tensor_in, tensor_out, now, pc,
                 audio_file_path, input_tensor, result, caught, invoked, ctor, X, y,
                 walked, apps>>

\* a detector that found no model: the lookup reads only the class attribute
InitInfo ==
  /\ workers = {}
  /\ fs = [p \in Paths |-> NoFile]
  /\ interpreter = NoInterpreter
  /\ loads = 0
  /\ InitLocals
  /\ InitOffline

NextInfo == \E emotion_name \in Names : get_emotion_info(emotion_name)

SpecInfo == InitInfo /\ [][NextInfo]_vars

\* the two strings are equal up to the case of their letters
SameIgnoringCase(a, b) ==
  /\ Len(a) = Len(b)
  /\ \A k \in 1 .. Len(a) : Lower(<<a[k]>>) = Lower(<<b[k]>>)

\* the known labels a string names when compared without regard to case
Named(cs) ==
  {i \in 1 .. Len(CREMAD_EMOTIONS) : SameIgnoringCase(cs, CREMAD_EMOTIONS[i])}

\* C20: get_emotion_info never fails on a label string: it can be called
\* with any string, returns the EMOTIONS entry of the string compared
\* case-insensitively when that is one of the six known labels, and the
\* neutral entry for every other string.
C20_InfoLookup ==
  /\ \A emotion_name \in Names : ENABLED get_emotion_info(emotion_name)
  /\ info.called =>
       IF Named(info.emotion_name) # {}
       THEN \A i \in Named(info.emotion_name) : info.value = EMOTIONS[MODEL_CLASSES[i]]
       ELSE info.value = EMOTIONS.neutral

\* the capitalised label Sad was looked up and gave the entry of sad
C20_Witness ==
  /\ info.called
  /\ info.emotion_name = <<"S", "a", "d">>
  /\ info.value = EMOTIONS.sad

----------------------------------------------------------------------------
(* Recordings with two channels                                            *)

StereoValues == {32767, -32768, 3277}

\* one signal of k frames per channel
StereoChannel(k) == [1 .. k -> [v : StereoValues, n : {1}]]

StereoContents ==
  {[kind |-> "wav", samples |-> l, right |-> r] :
     <<l, r>> \in UNION {StereoChannel(k) \X StereoChannel(k) : k \in 1 .. MaxRuns}}

InitStereo ==
  /\ workers = {1}
  /\ \E c \in StereoContents : fs = [p \in Paths |-> IF p = "rec1.wav" THEN c ELSE NoFile]
  /\ InitDetector
  /\ InitLocals
  /\ InitOffline

SpecStereo == InitStereo /\ [][Next]_vars

\* C21: a recording with several channels is down-mixed or rejected: what
\* reaches the gate, the framing and the model is not the interleaving of
\* the channels, and it has no more samples than the file has frames (every
\* sample of the tensor beyond the frame count is padding).
C21_NoInterleaving ==
  \A t \in Workers :
    (pc[t] \in {"set_tensor", "invoke", "get_tensor"}
       /\ "right" \in DOMAIN fs[audio_file_path[t]]) =>
      LET f == fs[audio_file_path[t]]
          frames == Length(f.samples)
          x == input_tensor[t]
      IN  /\ \A i \in (frames + 1) .. (2 * frames) : At(x, i) = 0
          /\ ~SameSignal(x, PadTrim(NoiseGate(Interleave(f.samples, f.right))))

\* C22: whenever the forward pass is invoked, the tensor it is fed has a
\* peak amplitude of at least 0.1, also for a recording longer than 48000
\* samples that is quiet at first and loud later.
C22_NoQuietTensor ==
  \A t \in Workers :
    pc[t] \in {"invoke", "get_tensor"} =>
      Peak(input_tensor[t]) * 10 >= FLOAT_ONE

----------------------------------------------------------------------------
(* voice_recorder.py: the desktop VoiceRecorder                            *)
(* Its methods are called from one thread; each capture thread runs the    *)
(* loop of record_audio and, on the stream's thread, _audio_callback; the  *)
(* steps are the reads and writes of recording, paused and audio_data.     *)

\* what no method of the recorder touches
detector == <<fs, workers, interpreter, loads, tensor_in, tensor_out, now, pc,
              audio_file_path, input_tensor, result, caught, invoked,
              ctor, info, X, y, walked, library, habit>>

\* the thread a successful start_recording will create
NextThread == CHOOSE th \in ThreadIds :
                /\ threads[th].state = "unborn"
                /\ \A o \in ThreadIds : threads[o].state = "unborn" => th <= o

\* start_recording, lines 33-37
StartRecording ==
  /\ ui.pc = "idle"
  /\ IF vr.recording
     THEN /\ ui' = [pc |-> "idle", op |-> "start_recording", ret |-> "False",
                  entry |-> Flags(vr)]
          /\ UNCHANGED vr
     ELSE /\ \E th \in ThreadIds : threads[th].state = "unborn"
          /\ vr' = [vr EXCEPT !.recording = TRUE, !.paused = FALSE]
          /\ ui' = [pc |-> "start_reset", op |-> "start_recording", ret |-> "none",
                  entry |-> Flags(vr)]
  /\ UNCHANGED <<detector, threads, clock, paused_for, saved, shown>>

\* start_recording, lines 38-53
StartReset ==
  /\ ui.pc = "start_reset"
  /\ vr' = [vr EXCEPT !.audio_data = <<>>, !.start_time = clock,
                      !.total_pause_duration = 0, !.recording_thread = NextThread]
  /\ threads' = [threads EXCEPT ![NextThread].state = "running"]
  /\ paused_for' = 0
  /\ ui' = [ui EXCEPT !.pc = "idle", !.ret = "True"]
  /\ UNCHANGED <<detector, clock, saved, shown>>

\* pause_recording, lines 64-65
PauseRecording ==
  /\ ui.pc = "idle"
  /\ IF vr.recording /\ ~vr.paused
     THEN /\ vr' = [vr EXCEPT !.paused = TRUE]
          /\ ui' = [pc |-> "pause_time", op |-> "pause_recording", ret |-> "none",
                  entry |-> Flags(vr)]
     ELSE /\ ui' = [pc |-> "idle", op |-> "pause_recording", ret |-> "False",
                  entry |-> Flags(vr)]
          /\ UNCHANGED vr
  /\ UNCHANGED <<detector, threads, clock, paused_for, saved, shown>>

\* pause_recording, lines 66-67
PauseTime ==
  /\ ui.pc = "pause_time"
  /\ vr' = [vr EXCEPT !.pause_time = clock]
  /\ ui' = [ui EXCEPT !.pc = "idle", !.ret = "True"]
  /\ UNCHANGED <<detector, threads, clock, paused_for, saved, shown>>

\* resume_recording, lines 72-73
ResumeRecording ==
  /\ ui.pc = "idle"
  /\ IF vr.recording /\ vr.paused
     THEN /\ vr' = [vr EXCEPT !.paused = FALSE]
          /\ ui' = [pc |-> "resume_total", op |-> "resume_recording", ret |-> "none",
                  entry |-> Flags(vr)]
     ELSE /\ ui' = [pc |-> "idle", op |-> "resume_recording", ret |-> "False",
                  entry |-> Flags(vr)]
          /\ UNCHANGED vr
  /\ UNCHANGED <<detector, threads, clock, paused_for, saved, shown>>

\* resume_recording, lines 74-75
ResumeTotal ==
  /\ ui.pc = "resume_total"
  /\ IF vr.pause_time # NoTime
     THEN /\ vr' = [vr EXCEPT !.total_pause_duration = @ + (clock - vr.pause_time)]
          /\ ui' = [ui EXCEPT !.pc = "resume_time"]
     ELSE /\ ui' = [ui EXCEPT !.pc = "idle", !.ret = "True"]
          /\ UNCHANGED vr
  /\ UNCHANGED <<detector, threads, clock, paused_for, saved, shown>>

\* resume_recording, lines 76-77
ResumeTime ==
  /\ ui.pc = "resume_time"
  /\ vr' = [vr EXCEPT !.pause_time = NoTime]
  /\ ui' = [ui EXCEPT !.pc = "idle", !.ret = "True"]
  /\ UNCHANGED <<detector, threads, clock, paused_for, saved, shown>>

\* stop_recording, lines 82-85
StopRecording ==
  /\ ui.pc = "idle"
  /\ IF ~vr.recording
     THEN /\ ui' = [pc |-> "idle", op |-> "stop_recording", ret |-> "None",
                  entry |-> Flags(vr)]
          /\ UNCHANGED vr
     ELSE /\ vr' = [vr EXCEPT !.recording = FALSE]
          /\ ui' = [pc |-> "stop_paused", op |-> "stop_recording", ret |-> "none",
                  entry |-> Flags(vr)]
  /\ UNCHANGED <<detector, threads, clock, paused_for, saved, shown>>

\* Faulty variant: stop_recording without line 86
StopKeepsPaused ==
  /\ ui.pc = "stop_paused"
  /\ ui' = [ui EXCEPT !.pc = "stop_join"]
  /\ UNCHANGED <<detector, vr, threads, clock, paused_for, saved, shown>>

\* stop_recording, line 86
StopPaused ==
  /\ ui.pc = "stop_paused"
  /\ vr' = [vr EXCEPT !.paused = FALSE]
  /\ ui' = [ui EXCEPT !.pc = "stop_join"]
  /\ UNCHANGED <<detector, threads, clock, paused_for, saved, shown>>

\* stop_recording, lines 88-89: join(timeout=2) returns when the thread has
\* ended or when the two seconds are over, whichever comes first
StopJoin ==
  /\ ui.pc = "stop_join"
  /\ ui' = [ui EXCEPT !.pc = "stop_save"]
  /\ UNCHANGED <<detector, vr, threads, clock, paused_for, saved, shown>>

\* stop_recording, lines 91-104
StopSave ==
  /\ ui.pc = "stop_save"
  /\ IF vr.audio_data = <<>>
     THEN /\ ui' = [ui EXCEPT !.pc = "idle", !.ret = "None"]
          /\ UNCHANGED saved
     ELSE /\ saved' = Append(saved, vr.audio_data)
          /\ ui' = [ui EXCEPT !.pc = "idle", !.ret = "filename"]
  /\ UNCHANGED <<detector, vr, threads, clock, paused_for, shown>>

\* record_audio: while self.recording is found False, the loop is left
LoopExit(th) ==
  /\ threads[th].state = "running"
  /\ ~vr.recording
  /\ threads' = [threads EXCEPT ![th].state = "closing"]
  /\ UNCHANGED <<detector, vr, ui, clock, paused_for, saved, shown>>

\* record_audio: the with block closes the stream once no callback is running
StreamClose(th) ==
  /\ threads[th].state = "closing"
  /\ threads[th].cb = "idle"
  /\ threads' = [threads EXCEPT ![th].state = "dead"]
  /\ UNCHANGED <<detector, vr, ui, clock, paused_for, saved, shown>>

\* the blocks all streams have delivered so far
RECURSIVE DeliveredUpTo(_)
DeliveredUpTo(k) == IF k = 0 THEN 0 ELSE threads[k].n + DeliveredUpTo(k - 1)
Delivered == DeliveredUpTo(MaxStarts)

\* the open stream hands _audio_callback a block; the block remembers which
\* stream delivered it and whether the recorder was recording and not paused
CallbackEnter(th) ==
  /\ threads[th].state \in {"running", "closing"}
  /\ threads[th].cb = "idle"
  /\ Delivered < MaxChunks
  /\ threads' = [threads EXCEPT
                   ![th].cb = "recording",
                   ![th].n = @ + 1,
                   ![th].chunk = [th |-> th, wanted |-> vr.recording /\ ~vr.paused]]
  /\ UNCHANGED <<detector, vr, ui, clock, paused_for, saved, shown>>

\* _audio_callback, line 59: self.recording is read
CallbackRecording(th) ==
  /\ threads[th].cb = "recording"
  /\ threads' = [threads EXCEPT ![th].cb = IF vr.recording THEN "paused" ELSE "idle"]
  /\ UNCHANGED <<detector, vr, ui, clock, paused_for, saved, shown>>

\* _audio_callback, line 59: self.paused is read
CallbackPaused(th) ==
  /\ threads[th].cb = "paused"
  /\ threads' = [threads EXCEPT ![th].cb = IF vr.paused THEN "idle" ELSE "append"]
  /\ UNCHANGED <<detector, vr, ui, clock, paused_for, saved, shown>>

\* _audio_callback, line 60
CallbackAppend(th) ==
  /\ threads[th].cb = "append"
  /\ vr' = [vr EXCEPT !.audio_data = Append(@, threads[th].chunk)]
  /\ threads' = [threads EXCEPT ![th].cb = "idle"]
  /\ UNCHANGED <<detector, ui, clock, paused_for, saved, shown>>

\* get_recording_duration, given the value time.time() returns
get_recording_duration(self, current_time) ==
  IF ~self.recording \/ self.start_time = NoTime THEN 0
  ELSE IF self.paused /\ self.pause_time # NoTime
  THEN self.pause_time - self.start_time - self.total_pause_duration
  ELSE LET pause_offset ==
             self.total_pause_duration
               + (IF self.paused /\ self.pause_time # NoTime
                  THEN current_time - self.pause_time ELSE 0)
       IN  current_time - self.start_time - pause_offset

\* the timer thread of the application asks for the duration
GetDuration ==
  /\ shown' = get_recording_duration(vr, clock)
  /\ UNCHANGED <<detector, vr, threads, ui, clock, paused_for, saved>>

\* time passes; the statements of a method take none, the join up to two seconds
ClockTick ==
  /\ clock < MaxClock
  /\ ui.pc \in {"idle", "stop_join"}
  /\ clock' = clock + 1
  /\ paused_for' = IF vr.recording /\ vr.paused THEN paused_for + 1 ELSE paused_for
  /\ UNCHANGED <<detector, vr, threads, ui, saved, shown>>

InitRecorder ==
  /\ workers = {}
  /\ fs = [p \in Paths |-> NoFile]
  /\ interpreter = NoInterpreter
  /\ loads = 0
  /\ InitLocals
  /\ InitOffline

\* the methods, called one after the other from the handlers of the window
Methods_VoiceRecorder ==
  \/ StartRecording \/ StartReset
  \/ PauseRecording \/ PauseTime
  \/ ResumeRecording \/ ResumeTotal \/ ResumeTime
  \/ StopRecording \/ StopPaused \/ StopJoin \/ StopSave

\* the capture threads and their streams; time plays no part in what they do
NextRecorder ==
  \/ Methods_VoiceRecorder
  \/ \E th \in ThreadIds : LoopExit(th)
  \/ \E th \in ThreadIds : StreamClose(th)
  \/ \E th \in ThreadIds : CallbackEnter(th)
  \/ \E th \in ThreadIds : CallbackRecording(th)
  \/ \E th \in ThreadIds : CallbackPaused(th)
  \/ \E th \in ThreadIds : CallbackAppend(th)

SpecRecorder == InitRecorder /\ [][NextRecorder]_vars

\* the timer thread of the window, which reads the duration while the methods
\* run; the capture threads write nothing the duration is computed from
NextTimer ==
  \/ Methods_VoiceRecorder
  \/ GetDuration
  \/ ClockTick

SpecTimer == InitRecorder /\ [][NextTimer]_vars

\* a method returns in this step
Returns(op) == ui'.pc = "idle" /\ ui'.op = op /\ (ui.pc # "idle" \/ ui' # ui)

C23_Calls ==
  /\ (Returns("start_recording") /\ ui'.entry.recording) =>
       /\ ui'.ret = "False"
       /\ UNCHANGED <<vr, threads, saved>>
  /\ (Returns("pause_recording") /\ ui'.ret = "True") =>
       ui'.entry.recording /\ ~ui'.entry.paused
  /\ (Returns("resume_recording") /\ ui'.ret = "True") =>
       ui'.entry.recording /\ ui'.entry.paused
  /\ Returns("stop_recording") =>
       IF ui'.entry.recording THEN ~vr'.recording /\ ~vr'.paused ELSE ui'.ret = "None"

\* C23: between calls of the desktop recorder paused implies recording;
\* start_recording on a recorder that is recording returns False and changes
\* nothing; pause_recording returns True only when called on recording and not
\* paused, resume_recording only on recording and paused; stop_recording
\* returns None when not recording and otherwise leaves both flags False.
C23_StateMachine ==
  /\ [](ui.pc = "idle" => (vr.paused => vr.recording))
  /\ [][C23_Calls]_vars

\* a recording stopped while it was paused, and saved
C23_Witness ==
  /\ ui.pc = "idle" /\ ui.op = "stop_recording" /\ ui.ret = "filename"
  /\ ui.entry.paused
  /\ ~vr.recording /\ ~vr.paused

\* the blocks of a list that were delivered while paused or while not recording
Unwanted(blocks) == {i \in 1 .. Len(blocks) : ~blocks[i].wanted}

\* C24: whatever way the callback interleaves with pause_recording,
\* resume_recording and stop_recording, audio_data and every saved file hold
\* only blocks that were delivered while recording was True and paused False.
C24_OnlyWantedBlocks ==
  /\ Unwanted(vr.audio_data) = {}
  /\ \A k \in 1 .. Len(saved) : Unwanted(saved[k]) = {}

\* C25: audio_data and every saved file hold only blocks appended by the
\* capture thread that was started for that recording, also after a
\* stop_recording whose join timed out and a new start_recording.
C25_OneCaptureThread ==
  /\ \A i \in 1 .. Len(vr.audio_data) : vr.audio_data[i].th = vr.recording_thread
  /\ \A k \in 1 .. Len(saved) : \A i, j \in 1 .. Len(saved[k]) : saved[k][i].th = saved[k][j].th

\* the timer thread reads a duration in this step
Reads == shown' = get_recording_duration(vr, clock) /\ UNCHANGED <<vr, ui, clock, paused_for>>

\* a recording is under way: start_recording has returned, stop_recording has not begun
Underway == vr.recording /\ ui.pc # "start_reset"

\* C26: the duration the timer reads is 0 when not recording and, during a
\* recording, the time since start_time less the time spent paused, which is
\* never negative.
C26_Duration ==
  [][Reads =>
       /\ ~vr.recording => shown' = 0
       /\ Underway => /\ shown' = (clock - vr.start_time) - paused_for
                      /\ shown' >= 0]_vars

----------------------------------------------------------------------------
(* The recordings library: the sidecar methods and delete_recording of     *)
(* voice_recorder.py (desktop) and voice_recorder_mobile.py (mobile)       *)

\* what no library method touches
engine == <<workers, interpreter, loads, tensor_in, tensor_out, now, pc,
            audio_file_path, input_tensor, result, caught, invoked,
            ctor, info, X, y, walked, capture, habit>>

\* the keys of the dicts analyze_audio returns, in the order they are
\* written, and those whose value is a float
KeyOrder ==
  <<"emotion", "intensity", "color", "emoji", "icon", "timestamp", "confidence", "error">>
NumberKeys == {"timestamp", "confidence"}

\* json.dumps of a str with ensure_ascii (the default): a character outside
\* ASCII becomes its \uXXXX escape, a pair of them above U+FFFF
Escapes ==
  ("U+1F610" :> "\\ud83d\\ude10") @@ ("U+1F60A" :> "\\ud83d\\ude0a") @@
  ("U+1F622" :> "\\ud83d\\ude22") @@ ("U+1F620" :> "\\ud83d\\ude20") @@
  ("U+1F628" :> "\\ud83d\\ude28") @@ ("U+1F922" :> "\\ud83e\\udd22") @@
  ("U+2753" :> "\\u2753")
EncodeString(v) == IF v \in DOMAIN Escapes THEN Escapes[v] ELSE v
DecodeString(text) ==
  IF \E c \in DOMAIN Escapes : Escapes[c] = text
  THEN CHOOSE c \in DOMAIN Escapes : Escapes[c] = text
  ELSE text

\* Faulty variant: the dict is written with str(), which is not JSON.
json_dump_Repr(d) == [kind |-> "corrupt"]

\* json.dump(emotion_data, f, indent=2): the members of the object in the
\* order of the dict, a string as its escaped text, a float as its repr
json_dump(d) ==
  LET keys == SelectSeq(KeyOrder, LAMBDA k : k \in DOMAIN d)
  IN  [kind |-> "json",
       doc |-> [i \in 1 .. Len(keys) |->
                  IF keys[i] \in NumberKeys
                  THEN [key |-> keys[i], type |-> "number", num |-> d[keys[i]]]
                  ELSE [key |-> keys[i], type |-> "string", text |-> EncodeString(d[keys[i]])]]]

\* json.load of an object: the last member of a name wins
json_load(doc) ==
  [k \in {doc[i].key : i \in 1 .. Len(doc)} |->
     LET m == doc[CHOOSE i \in 1 .. Len(doc) :
                    doc[i].key = k /\ \A j \in (i + 1) .. Len(doc) : doc[j].key # k]
     IN  IF m.type = "number" THEN m.num ELSE DecodeString(m.text)]

EmptyDict == <<>>

\* load_emotion_metadata: {} when the sidecar is absent or open or json.load raise
load_emotion_metadata(files, audio_filepath) ==
  IF files[audio_filepath].kind = "json" THEN json_load(files[audio_filepath].doc)
  ELSE EmptyDict

\* dict.get(key): None when the key is missing
DictGet(d, key) == IF key \in DOMAIN d THEN d[key] ELSE "None"

\* get_recordings: one entry per .wav file of the directory (their order,
\* by st_mtime, is left out: the files of the model carry no time)
get_recordings(wavs, files) ==
  {LET emotion_data == load_emotion_metadata(files, p)
   IN  [path |-> p,
        emotion |-> DictGet(emotion_data, "emotion"),
        emotion_intensity |-> DictGet(emotion_data, "intensity"),
        emotion_color |-> DictGet(emotion_data, "color"),
        emotion_emoji |-> DictGet(emotion_data, "emoji")] : p \in {q \in Paths : Exists(wavs, q)}}

\* the dicts analyze_audio can return
Results ==
  {FileNotFoundResult}
    \cup {_get_fallback_result(t) : t \in 0 .. MaxTime}
    \cup {Decode(OutputVectors[i], t) :
            i \in {j \in 1 .. Len(OutputVectors) : DecodeError(OutputVectors[j]) = "none"},
            t \in 0 .. MaxTime}

\* save_emotion_metadata: open(emotion_file, 'w') fails (ok = FALSE: the
\* directory is gone or may not be written) or the dict is written
SaveMetadata(p, d, ok) ==
  /\ sidecars' = IF ok THEN [sidecars EXCEPT ![p] = json_dump(d)] ELSE sidecars
  /\ lib' = [op |-> "save_emotion_metadata", path |-> p, arg |-> d, ret |-> ok]
  /\ UNCHANGED <<fs, engine>>

LoadMetadata(p) ==
  /\ lib' = [op |-> "load_emotion_metadata", path |-> p,
             ret |-> load_emotion_metadata(sidecars, p)]
  /\ UNCHANGED <<fs, sidecars, engine>>

GetRecordings ==
  /\ lib' = [op |-> "get_recordings", ret |-> get_recordings(fs, sidecars)]
  /\ UNCHANGED <<fs, sidecars, engine>>

\* voice_recorder.py delete_recording: Path.unlink() of a missing file raises
\* FileNotFoundError, which the except clause turns into False
DeleteDesktop(p) ==
  /\ IF Exists(fs, p)
     THEN /\ fs' = [fs EXCEPT ![p] = NoFile]
          /\ sidecars' = [sidecars EXCEPT ![p] = NoSidecar]
          /\ lib' = [op |-> "delete_recording", on |-> "desktop", path |-> p, ret |-> TRUE]
     ELSE /\ lib' = [op |-> "delete_recording", on |-> "desktop", path |-> p, ret |-> FALSE]
          /\ UNCHANGED <<fs, sidecars>>
  /\ UNCHANGED engine

\* voice_recorder_mobile.py delete_recording: both files are unlinked if they exist
DeleteMobile(p) ==
  /\ fs' = [fs EXCEPT ![p] = NoFile]
  /\ sidecars' = [sidecars EXCEPT ![p] = NoSidecar]
  /\ lib' = [op |-> "delete_recording", on |-> "mobile", path |-> p, ret |-> TRUE]
  /\ UNCHANGED engine

\* a library with recordings and sidecars that cannot be read or parsed
InitLibrary ==
  /\ workers = {}
  /\ fs \in [Paths -> {NoFile, LoudClip}]
  /\ interpreter = NoInterpreter
  /\ loads = 0
  /\ InitLocals
  /\ InitCapture
  /\ ctor = NoFrame /\ info = NoInfo /\ X = <<>> /\ y = <<>> /\ walked = <<>>
  /\ sidecars \in [Paths -> {NoSidecar, [kind |-> "corrupt"], [kind |-> "unreadable"]}]
  /\ lib = NoLibCall
  /\ InitHabit

NextLibrary ==
  \/ \E p \in Paths, d \in Results, ok \in BOOLEAN : SaveMetadata(p, d, ok)
  \/ \E p \in Paths : LoadMetadata(p)
  \/ GetRecordings
  \/ \E p \in Paths : DeleteDesktop(p)
  \/ \E p \in Paths : DeleteMobile(p)

SpecLibrary == InitLibrary /\ [][NextLibrary]_vars

\* C27: after delete_recording(path) has returned, on the desktop and on the
\* mobile recorder, neither the .wav nor its sidecar exists.
C27_BothGone ==
  lib.op = "delete_recording" =>
    ~Exists(fs, lib.path) /\ sidecars[lib.path] = NoSidecar

----------------------------------------------------------------------------
(* main.py, main_mobile.py: the analysis thread and the delete action      *)

\* stop_recording (main.py) and run_analysis (main_mobile.py) start the
\* thread for the file that was just written
StartAnalysis(t, p) ==
  /\ Exists(fs, p)
  /\ sidecars[p] = NoSidecar
  /\ Call(t, p)

\* detect_emotion / analyze, after analyze_audio has returned:
\* save_emotion_metadata(filename, emotion_result), whatever became of the file
SaveAnalysis(t, ok) ==
  /\ pc[t] = "done"
  /\ sidecars' = IF ok THEN [sidecars EXCEPT ![audio_file_path[t]] = json_dump(result[t])]
                 ELSE sidecars
  /\ lib' = [op |-> "save_emotion_metadata", path |-> audio_file_path[t],
             arg |-> result[t], ret |-> ok]
  /\ pc' = [pc EXCEPT ![t] = "idle"]
  /\ input_tensor' = [input_tensor EXCEPT ![t] = NoTensor]
  /\ result' = [result EXCEPT ![t] = NoResult]
  /\ caught' = [caught EXCEPT ![t] = "none"]
  /\ invoked' = [invoked EXCEPT ![t] = FALSE]
  /\ UNCHANGED <<fs, workers, interpreter, loads, tensor_in, tensor_out, now,
                 audio_file_path, ctor, info, X, y, walked, capture, habit>>

\* two recordings on disk, none analysed yet
InitAnalysis ==
  /\ workers = {1}
  /\ fs = [p \in Paths |-> LoudClip]
  /\ interpreter \in {NoInterpreter} \cup
                     {[loaded |-> TRUE, weights |-> w, fails |-> "none"] : w \in {0, 2}}
  /\ loads = 0
  /\ InitLocals
  /\ InitOffline

NextAnalysis ==
  \/ \E t \in Workers, p \in Paths : StartAnalysis(t, p)
  \/ \E t \in Workers : CheckFile(t)
  \/ \E t \in Workers : Condition(t)
  \/ \E t \in Workers : SetTensor(t)
  \/ \E t \in Workers : Invoke(t)
  \/ \E t \in Workers : GetTensor(t)
  \/ \E t \in Workers, ok \in BOOLEAN : SaveAnalysis(t, ok)
  \/ \E p \in Paths : DeleteDesktop(p)
  \/ \E p \in Paths : DeleteMobile(p)
  \/ Tick

SpecAnalysis == InitAnalysis /\ [][NextAnalysis]_vars

\* C29: however the analysis thread interleaves with the delete action, a
\* sidecar exists only if its recording exists.
C29_NoOrphanSidecar ==
  \A p \in Paths : sidecars[p] # NoSidecar => Exists(fs, p)

----------------------------------------------------------------------------
(* main_mobile_exp.py calculate_streak and seed_streak.py                  *)

\* what calculate_streak and the seeding script do not touch
others == <<fs, workers, interpreter, loads, tensor_in, tensor_out, now, pc,
            audio_file_path, input_tensor, result, caught, invoked,
            ctor, info, X, y, walked, capture, library>>

DAYS_BACK == 5
DAY == 86400

\* the times a file can carry: the first and the last second of a day
Stamps == {d * DAY + o : d \in 0 .. MaxDay, o \in {0, DAY - 1}}

\* datetime.fromtimestamp(ts).date(), as the number of the day
Date(ts) == ts \div DAY

\* sorted(list(...), reverse=True) of a set of days
RECURSIVE SortedReverse(_)
SortedReverse(days) ==
  IF days = {} THEN <<>>
  ELSE LET top == CHOOSE d \in days : \A e \in days : e <= d
       IN  <<top>> \o SortedReverse(days \ {top})

\* sorted(..., reverse=True) of a list of days, repetitions kept
RECURSIVE SortedReverseList(_)
SortedReverseList(days) ==
  IF days = <<>> THEN <<>>
  ELSE LET i == CHOOSE k \in 1 .. Len(days) : \A j \in 1 .. Len(days) : days[j] <= days[k]
       IN  <<days[i]>> \o SortedReverseList(SubSeq(days, 1, i - 1) \o SubSeq(days, i + 1, Len(days)))

\* the for loop of lines 71-78 from position i of dates on
RECURSIVE StreakLoop(_, _, _, _)
StreakLoop(dates, i, current_date, n) ==
  IF i > Len(dates) THEN n
  ELSE IF current_date - dates[i] = 1 THEN StreakLoop(dates, i + 1, dates[i], n + 1)
  ELSE n

\* Faulty variant: the days are not made unique before they are sorted.
calculate_streak_NoSet(recordings, now_) ==
  IF recordings = <<>> THEN 0
  ELSE LET dates == SortedReverseList([i \in 1 .. Len(recordings) |-> Date(recordings[i])])
           today == Date(now_)
           last_recording == dates[1]
       IN  IF today - last_recording > 1 THEN 0
           ELSE StreakLoop(dates, 2, last_recording, 1)

\* calculate_streak, given the timestamps of the recordings and datetime.now()
calculate_streak(recordings, now_) ==
  IF recordings = <<>> THEN 0
  ELSE LET dates == SortedReverse({Date(recordings[i]) : i \in 1 .. Len(recordings)})
           today == Date(now_)
           last_recording == dates[1]
       IN  IF today - last_recording > 1 THEN 0
           ELSE StreakLoop(dates, 2, last_recording, 1)

\* seed_streak.py run at time now_ on an empty directory: one file for
\* today and each of the DAYS_BACK - 1 days before, its mtime set by os.utime
SeedStreak(now_) ==
  /\ mtimes = <<>>
  /\ now_ >= (DAYS_BACK - 1) * DAY
  /\ mtimes' = [i \in 1 .. DAYS_BACK |-> (now_ - (i - 1) * DAY)]
  /\ UNCHANGED <<streak, others>>

\* the window asks for the streak at time now_
CalculateStreak(now_) ==
  /\ streak' = [called |-> TRUE, now |-> now_, recordings |-> mtimes,
                ret |-> calculate_streak(mtimes, now_)]
  /\ UNCHANGED <<mtimes, others>>

\* a directory of up to MaxRecs recordings made at any of the times
InitStreak ==
  /\ workers = {}
  /\ fs = [p \in Paths |-> NoFile]
  /\ interpreter = NoInterpreter
  /\ loads = 0
  /\ InitLocals
  /\ InitCapture
  /\ ctor = NoFrame /\ info = NoInfo /\ X = <<>> /\ y = <<>> /\ walked = <<>>
  /\ sidecars = [p \in Paths |-> NoSidecar]
  /\ lib = NoLibCall
  /\ mtimes \in SeqsUpTo(Stamps, MaxRecs)
  /\ streak = NoStreak

NextStreak ==
  \/ \E now_ \in Stamps : SeedStreak(now_)
  \/ \E now_ \in Stamps : CalculateStreak(now_)

SpecStreak == InitStreak /\ [][NextStreak]_vars

\* the days that have a recording, and the run of days that ends at day d
Days(recordings) == {Date(recordings[i]) : i \in 1 .. Len(recordings)}
RunEndingAt(days, d) == CHOOSE n \in 1 .. (d + 1) :
                          /\ \A k \in 0 .. (n - 1) : (d - k) \in days
                          /\ (d - n) \notin days
Latest(days) == CHOOSE d \in days : \A e \in days : e <= d

\* what seed_streak.py leaves when run at time now_
Seeded(now_) == [i \in 1 .. DAYS_BACK |-> now_ - (i - 1) * DAY]

\* C30: calculate_streak returns 0 when there is no recording or the latest
\* day with a recording is more than one day before today; otherwise the
\* length of the longest run of consecutive days that ends at that latest
\* day, each day counted once; 5 for the recordings seed_streak.py made today.
C30_CurrentStreak ==
  streak.called =>
    LET days == Days(streak.recordings)
    IN  /\ streak.ret = IF days = {} THEN 0
                        ELSE IF Date(streak.now) - Latest(days) > 1 THEN 0
                        ELSE RunEndingAt(days, Latest(days))
        /\ (streak.now >= (DAYS_BACK - 1) * DAY /\ streak.recordings = Seeded(streak.now))
             => streak.ret = DAYS_BACK

\* two recordings on the same day, one the day before, asked the day after
C30_Witness ==
  /\ streak.called /\ streak.ret = 2
  /\ Len(streak.recordings) = 3
  /\ Cardinality(Days(streak.recordings)) = 2
  /\ Date(streak.now) = Latest(Days(streak.recordings)) + 1

====
